---- MODULE Spec2Model ----
(***************************************************************************)
(* The WebRTC data-channel demo client (webrtc-rs-client/src/main.rs) and   *)
(* the echo server's update (naia-socket-server/src/app.rs) as state        *)
(* machines.                                                               *)
(*                                                                         *)
(* The client's main path is one sequential process (main_pc).  The WebRTC *)
(* engine is an external collaborator: every call into it may succeed or   *)
(* fail, and it reports the data channel open at a moment of its choosing  *)
(* once both session descriptions are set.  The on_open handler, read_loop *)
(* and write_loop are further processes that interleave with main.         *)
(***************************************************************************)
EXTENDS Integers, Sequences, FiniteSets, TLC

\* ------------------------------------------------------------------ bounds
\* write_loop and read_loop run forever; the model stops counting here.
MaxSends == 2
MaxRecvs == 2
\* Calls on the Address Cell in a run of CellSpec.
MaxCellCalls == 3
\* Calls of App::update in a run of ServerSpec.
MaxUpdates == 3

\* ------------------------------------------------------- program constants
MESSAGE_SIZE == 1500
U16_MAX == 65535
\* write_loop: Duration::from_secs(5)
SLEEP_SECS == 5
\* "PING" and "PONG" as bytes.
PING == <<80, 73, 78, 71>>
PONG == <<80, 79, 78, 71>>

\* ---------------------------------------------------------- JSON values
\* A member of the decoded JSON object, as tinyjson's get::<T>() sees it.
JString(s) == [kind |-> "string", str |-> s, num |-> 0]
JNumber(n) == [kind |-> "number", str |-> "", num |-> n]
JAbsent == [kind |-> "absent", str |-> "", num |-> 0]

\* The candidate lines a server may answer with.
CandidateHost == "candidate:1 1 UDP 2122260223 192.0.2.5 54321 typ host"
CandidateBad == "candidate:1 1 UDP"
CandidateOther == "candidate:2 1 UDP 1 198.51.100.7 40000 typ srflx"
CandidateBadPort == "candidate:1 1 UDP 2122260223 192.0.2.5 port typ host"

SdpValues == {JString("v=0 answer"), JNumber(1), JAbsent}
TypeValues == {JString("answer"), JString("offer"), JNumber(1), JAbsent}
CandidateValues == {JString(CandidateHost), JString(CandidateBad), JNumber(1), JAbsent}
IndexValues == {JNumber(0), JNumber(70000), JString("0"), JAbsent}
MidValues == {JString("0"), JNumber(0), JAbsent}

\* Response bodies: text that is no JSON at all, or a JSON object.
NotJson == [json |-> FALSE, answer_sdp |-> JAbsent, answer_type |-> JAbsent,
            candidate_candidate |-> JAbsent, candidate_sdpMLineIndex |-> JAbsent,
            candidate_sdpMid |-> JAbsent]
ResponseStrings ==
    {NotJson} \cup
    [json : {TRUE}, answer_sdp : SdpValues, answer_type : TypeValues,
     candidate_candidate : CandidateValues,
     candidate_sdpMLineIndex : IndexValues, candidate_sdpMid : MidValues]

NoResponse == [panicked |-> TRUE, sdp |-> "", type_str |-> "", candidate |-> "",
               sdp_m_line_index |-> 0, sdp_mid |-> ""]

\* `x as u16` on an f64: saturating.
F64AsU16(x) == IF x < 0 THEN 0 ELSE IF x > U16_MAX THEN U16_MAX ELSE x

\* json_obj[..][..].get::<String>() / get::<f64>() followed by unwrap().
GetString(v) == v.kind = "string"
GetF64(v) == v.kind = "number"

\* Mutant: answer.type is read with a default instead of unwrap().
get_session_response_type_optional(input) ==
    IF /\ input.json
       /\ GetString(input.answer_sdp)
       /\ GetString(input.candidate_candidate)
       /\ GetF64(input.candidate_sdpMLineIndex)
       /\ GetString(input.candidate_sdpMid)
    THEN [panicked |-> FALSE,
          sdp |-> input.answer_sdp.str,
          type_str |-> input.answer_type.str,
          candidate |-> input.candidate_candidate.str,
          sdp_m_line_index |-> F64AsU16(input.candidate_sdpMLineIndex.num),
          sdp_mid |-> input.candidate_sdpMid.str]
    ELSE NoResponse

\* get_session_response: every unwrap that fails panics; otherwise the five
\* members are copied out.
get_session_response(input) ==
    IF /\ input.json
       /\ GetString(input.answer_sdp)
       /\ GetString(input.answer_type)
       /\ GetString(input.candidate_candidate)
       /\ GetF64(input.candidate_sdpMLineIndex)
       /\ GetString(input.candidate_sdpMid)
    THEN [panicked |-> FALSE,
          sdp |-> input.answer_sdp.str,
          type_str |-> input.answer_type.str,
          candidate |-> input.candidate_candidate.str,
          sdp_m_line_index |-> F64AsU16(input.candidate_sdpMLineIndex.num),
          sdp_mid |-> input.candidate_sdpMid.str]
    ELSE NoResponse

\* ------------------------------------------------------------ Address Cell
\* The Address Cell and the Candidate Parser, after sections 3, 4.1 and 4.2 of
\* the specification.

\* The characters of a candidate line.
Chars(text) ==
    CASE text = CandidateHost ->
        <<"c", "a", "n", "d", "i", "d", "a", "t", "e", ":", "1", " ", "1",
          " ", "U", "D", "P", " ", "2", "1", "2", "2", "2", "6", "0", "2",
          "2", "3", " ", "1", "9", "2", ".", "0", ".", "2", ".", "5", " ",
          "5", "4", "3", "2", "1", " ", "t", "y", "p", " ", "h", "o", "s",
          "t">>
      [] text = CandidateOther ->
        <<"c", "a", "n", "d", "i", "d", "a", "t", "e", ":", "2", " ", "1",
          " ", "U", "D", "P", " ", "1", " ", "1", "9", "8", ".", "5", "1",
          ".", "1", "0", "0", ".", "7", " ", "4", "0", "0", "0", "0", " ",
          "t", "y", "p", " ", "s", "r", "f", "l", "x">>
      [] text = CandidateBad ->
        <<"c", "a", "n", "d", "i", "d", "a", "t", "e", ":", "1", " ", "1",
          " ", "U", "D", "P">>
      [] text = CandidateBadPort ->
        <<"c", "a", "n", "d", "i", "d", "a", "t", "e", ":", "1", " ", "1",
          " ", "U", "D", "P", " ", "2", "1", "2", "2", "2", "6", "0", "2",
          "2", "3", " ", "1", "9", "2", ".", "0", ".", "2", ".", "5", " ",
          "p", "o", "r", "t", " ", "t", "y", "p", " ", "h", "o", "s", "t">>
      [] OTHER -> <<>>

CandidateTexts == {CandidateHost, CandidateOther, CandidateBad, CandidateBadPort}

Digits == <<"0", "1", "2", "3", "4", "5", "6", "7", "8", "9">>
IsDigit(c) == \E d \in 1..10 : Digits[d] = c
DigitValue(c) == (CHOOSE d \in 1..10 : Digits[d] = c) - 1

\* The fields of `line` between the separators `sep`.
RECURSIVE SplitOn(_, _)
SplitOn(line, sep) ==
    IF \A i \in 1..Len(line) : line[i] # sep
    THEN <<line>>
    ELSE LET at == CHOOSE i \in 1..Len(line) :
                     line[i] = sep /\ \A j \in 1..(i - 1) : line[j] # sep
         IN <<SubSeq(line, 1, at - 1)>> \o SplitOn(SubSeq(line, at + 1, Len(line)), sep)

IsNumber(field) == field # <<>> /\ Len(field) <= 5 /\ \A i \in 1..Len(field) : IsDigit(field[i])

RECURSIVE ToNat(_)
ToNat(field) ==
    IF field = <<>> THEN 0
    ELSE 10 * ToNat(SubSeq(field, 1, Len(field) - 1)) + DigitValue(field[Len(field)])

IsIpv4(field) ==
    LET parts == SplitOn(field, ".") IN
    /\ Len(parts) = 4
    /\ \A i \in 1..4 : IsNumber(parts[i]) /\ ToNat(parts[i]) <= 255

Octets(field) == LET parts == SplitOn(field, ".") IN [i \in 1..4 |-> ToNat(parts[i])]

NoAddress == [ok |-> FALSE, ip |-> <<>>, port |-> 0]

\* Candidate Parser: the address in the connection-address and port fields of
\* foundation component protocol priority connection-address port typ type ..;
\* no address for a line of any other shape.
parse_candidate(text) ==
    LET fields == SplitOn(Chars(text), " ") IN
    IF /\ Len(fields) >= 8
       /\ IsIpv4(fields[5])
       /\ IsNumber(fields[6])
       /\ ToNat(fields[6]) <= U16_MAX
       /\ fields[7] = <<"t", "y", "p">>
    THEN [ok |-> TRUE, ip |-> Octets(fields[5]), port |-> ToNat(fields[6])]
    ELSE NoAddress

Finding == [state |-> "Finding", ip |-> <<>>, port |-> 0]
Found(address) == [state |-> "Found", ip |-> address.ip, port |-> address.port]

\* get(): a snapshot of the cell.
get(cell) == cell

\* Mutant: a line without an address stores the unspecified address.
set_from_candidate_stores_default(cell, candidate_text) ==
    LET address == parse_candidate(candidate_text) IN
    IF cell.state = "Finding" THEN Found(address) ELSE cell

\* Mutant: every parsed candidate is stored, over an address already found.
set_from_candidate_overwrites(cell, candidate_text) ==
    LET address == parse_candidate(candidate_text) IN
    IF address.ok THEN Found(address) ELSE cell

\* set_from_candidate(candidate_text): the cell goes to Found once, with the
\* parsed address; a line without an address leaves it as it is.
set_from_candidate(cell, candidate_text) ==
    LET address == parse_candidate(candidate_text) IN
    IF cell.state = "Finding" /\ address.ok THEN Found(address) ELSE cell

\* ------------------------------------------------------------------ state
VARIABLES
    main_pc,            \* the statement of main() that runs next
    on_error_handler,   \* data_channel.on_error registered
    on_open_handler,    \* data_channel.on_open registered
    local_description,  \* peer connection has a local description
    remote_description, \* peer connection has a remote description (its type)
    posts,              \* HTTP requests sent
    response_string,    \* the body of the HTTP response
    session_response,   \* get_session_response's result
    ready_state,        \* the data channel: "none", "connecting", "open", "closed"
    on_open_pc,         \* the on_open handler's future
    detach_calls,       \* calls of data_channel.detach()
    detached,           \* detach() returned Ok: detached_data_channel exists
    holders,            \* tasks holding an Arc of the detached channel
    closed_by,          \* who closed the detached channel
    read_pc,            \* read_loop
    message,            \* read_loop: the payload in buffer[..message_length]
    write_pc,           \* write_loop
    result,             \* write_loop: result.is_ok()
    sends,              \* data_channel.write calls
    elapsed,            \* write_loop: seconds the pending sleep has run
    sent,               \* history: the payloads write_loop handed to write
    recvs,              \* data_channel.read calls that returned Ok
    steps,              \* history: the calls main has made, in order
    trace,              \* history: what read_loop and write_loop got from the channel
    address_cell,       \* the Address Cell: Finding or Found(address)
    cell_log,           \* history: the calls made on the Address Cell and their results
    outbox,             \* server: the packets handed to packet_sender, in order
    server_log          \* history: what each App::update received and sent

client_vars == <<main_pc, on_error_handler, on_open_handler, local_description,
                 remote_description, posts, response_string, session_response,
                 ready_state, on_open_pc, detach_calls, detached, holders, closed_by, read_pc,
                 message, write_pc, result, sends, elapsed, sent, recvs, steps,
                 trace>>

cell_vars == <<address_cell, cell_log>>
server_vars == <<outbox, server_log>>
vars == <<client_vars, cell_vars, server_vars>>

main_vars == <<main_pc, on_error_handler, on_open_handler, local_description,
               remote_description, posts, response_string, session_response,
               steps>>
open_vars == <<on_open_pc, detach_calls, detached>>
read_vars == <<read_pc, message, recvs>>
write_vars == <<write_pc, result, sends, elapsed, sent>>

NoMessage == [len |-> 0, utf8 |-> TRUE]
\* What the peer may send: "PONG", bytes that are no UTF-8, and a datagram
\* larger than the read buffer.
Payloads == {[len |-> 4, utf8 |-> TRUE], [len |-> 2, utf8 |-> FALSE],
             [len |-> MESSAGE_SIZE + 1, utf8 |-> TRUE]}

\* The process is gone once main has returned an error or panicked; the
\* runtime and every spawned task go with it.
ProcessAlive == main_pc \notin {"exited", "panicked"}

Init ==
    /\ main_pc = "new_peer_connection"
    /\ on_error_handler = FALSE
    /\ on_open_handler = FALSE
    /\ local_description = FALSE
    /\ remote_description = "none"
    /\ posts = 0
    /\ response_string = NotJson
    /\ session_response = NoResponse
    /\ ready_state = "none"
    /\ on_open_pc = "idle"
    /\ detach_calls = 0
    /\ detached = FALSE
    /\ holders = {}
    /\ closed_by = "none"
    /\ read_pc = "none"
    /\ message = NoMessage
    /\ write_pc = "none"
    /\ result = TRUE
    /\ sends = 0
    /\ elapsed = 0
    /\ sent = <<>>
    /\ recvs = 0
    /\ steps = <<>>
    /\ trace = <<>>
    /\ address_cell = Finding
    /\ cell_log = <<>>
    /\ outbox = <<>>
    /\ server_log = <<>>

\* ------------------------------------------------------------------- main
\* A step of main that calls the engine and applies `?` to the result.
MainTry(at, ok, next, event) ==
    /\ main_pc = at
    /\ main_pc' = IF ok THEN next ELSE "exited"
    /\ steps' = Append(steps, IF ok THEN event ELSE "error")

\* api.new_peer_connection(config).await?
main_new_peer_connection ==
    /\ \E ok \in BOOLEAN : MainTry("new_peer_connection", ok, "create_data_channel", "new_peer_connection")
    /\ UNCHANGED <<cell_vars, server_vars>>
    /\ UNCHANGED <<on_error_handler, on_open_handler, local_description,
                   remote_description, posts, response_string, session_response,
                   ready_state, open_vars, holders, closed_by, read_vars, write_vars, trace>>

\* peer_connection.create_data_channel("data", ..).await?
main_create_data_channel ==
    /\ \E ok \in BOOLEAN :
        /\ MainTry("create_data_channel", ok, "on_error", "create_data_channel")
        /\ ready_state' = IF ok THEN "connecting" ELSE ready_state
    /\ UNCHANGED <<cell_vars, server_vars>>
    /\ UNCHANGED <<on_error_handler, on_open_handler, local_description,
                   remote_description, posts, response_string, session_response,
                   open_vars, holders, closed_by, read_vars, write_vars, trace>>

\* data_channel.on_error(..).await
main_on_error ==
    /\ main_pc = "on_error"
    /\ main_pc' = "on_open"
    /\ on_error_handler' = TRUE
    /\ steps' = Append(steps, "on_error")
    /\ UNCHANGED <<cell_vars, server_vars>>
    /\ UNCHANGED <<on_open_handler, local_description, remote_description, posts,
                   response_string, session_response, ready_state, open_vars,
                   holders, closed_by, read_vars, write_vars, trace>>

\* Mutant: main goes on without registering the on_open handler.
main_on_open_unregistered ==
    /\ main_pc = "on_open"
    /\ main_pc' = "on_ice_candidate"
    /\ steps' = Append(steps, "on_open")
    /\ UNCHANGED <<cell_vars, server_vars>>
    /\ UNCHANGED <<on_error_handler, on_open_handler, local_description,
                   remote_description, posts, response_string, session_response,
                   ready_state, open_vars, holders, closed_by, read_vars, write_vars,
                   trace>>

\* Mutant: the two loops are spawned where the handler is registered, not
\* from the handler.
main_on_open_spawns ==
    /\ main_pc = "on_open"
    /\ main_pc' = "on_ice_candidate"
    /\ on_open_handler' = TRUE
    /\ steps' = Append(steps, "on_open")
    /\ read_pc' = "read"
    /\ write_pc' = "sleep"
    /\ holders' = holders \cup {"read_loop", "write_loop"}
    /\ UNCHANGED <<cell_vars, server_vars>>
    /\ UNCHANGED <<on_error_handler, local_description, remote_description, posts,
                   response_string, session_response, ready_state, open_vars,
                   closed_by, message, recvs, result, sends, elapsed, sent, trace>>

\* data_channel.on_open(..).await
main_on_open ==
    /\ main_pc = "on_open"
    /\ main_pc' = "on_ice_candidate"
    /\ on_open_handler' = TRUE
    /\ steps' = Append(steps, "on_open")
    /\ UNCHANGED <<cell_vars, server_vars>>
    /\ UNCHANGED <<on_error_handler, local_description, remote_description, posts,
                   response_string, session_response, ready_state, open_vars,
                   holders, closed_by, read_vars, write_vars, trace>>

\* peer_connection.on_ice_candidate(..).await
main_on_ice_candidate ==
    /\ main_pc = "on_ice_candidate"
    /\ main_pc' = "create_offer"
    /\ steps' = Append(steps, "on_ice_candidate")
    /\ UNCHANGED <<cell_vars, server_vars>>
    /\ UNCHANGED <<on_error_handler, on_open_handler, local_description,
                   remote_description, posts, response_string, session_response,
                   ready_state, open_vars, holders, closed_by, read_vars, write_vars, trace>>

\* peer_connection.create_offer(None).await?
main_create_offer ==
    /\ \E ok \in BOOLEAN : MainTry("create_offer", ok, "set_local_description", "create_offer")
    /\ UNCHANGED <<cell_vars, server_vars>>
    /\ UNCHANGED <<on_error_handler, on_open_handler, local_description,
                   remote_description, posts, response_string, session_response,
                   ready_state, open_vars, holders, closed_by, read_vars, write_vars, trace>>

\* peer_connection.set_local_description(offer).await?
main_set_local_description ==
    /\ \E ok \in BOOLEAN :
        /\ MainTry("set_local_description", ok, "send", "set_local_description")
        /\ local_description' = ok
    /\ UNCHANGED <<cell_vars, server_vars>>
    /\ UNCHANGED <<on_error_handler, on_open_handler, remote_description, posts,
                   response_string, session_response, ready_state, open_vars,
                   holders, closed_by, read_vars, write_vars, trace>>

\* Mutant: a failed send is tried again.
main_send_retries ==
    /\ main_pc = "send"
    /\ local_description
    /\ posts' = posts + 1
    /\ \E ok \in BOOLEAN :
        /\ main_pc' = IF ok THEN "text" ELSE "send"
        /\ steps' = IF ok THEN Append(steps, "send") ELSE steps
    /\ UNCHANGED <<cell_vars, server_vars>>
    /\ UNCHANGED <<on_error_handler, on_open_handler, local_description,
                   remote_description, response_string, session_response,
                   ready_state, open_vars, holders, closed_by, read_vars, write_vars, trace>>

\* request.send().await: an Err panics.  peer_connection.local_description()
\* is Some once set_local_description has succeeded, so its unwrap passes.
main_send ==
    /\ main_pc = "send"
    /\ local_description
    /\ posts' = posts + 1
    /\ \E ok \in BOOLEAN :
        /\ main_pc' = IF ok THEN "text" ELSE "panicked"
        /\ steps' = Append(steps, IF ok THEN "send" ELSE "error")
    /\ UNCHANGED <<cell_vars, server_vars>>
    /\ UNCHANGED <<on_error_handler, on_open_handler, local_description,
                   remote_description, response_string, session_response,
                   ready_state, open_vars, holders, closed_by, read_vars, write_vars, trace>>

\* response.text().await.unwrap()
main_text ==
    /\ main_pc = "text"
    /\ \/ /\ main_pc' = "panicked"
          /\ steps' = Append(steps, "error")
          /\ UNCHANGED response_string
       \/ \E body \in ResponseStrings :
            /\ response_string' = body
            /\ main_pc' = "get_session_response"
            /\ steps' = Append(steps, "text")
    /\ UNCHANGED <<cell_vars, server_vars>>
    /\ UNCHANGED <<on_error_handler, on_open_handler, local_description,
                   remote_description, posts, session_response,
                   ready_state, open_vars, holders, closed_by, read_vars, write_vars, trace>>

\* let session_response = get_session_response(response_string.as_str());
main_get_session_response ==
    /\ main_pc = "get_session_response"
    /\ LET parsed == get_session_response(response_string) IN
        /\ session_response' = parsed
        /\ main_pc' = IF parsed.panicked THEN "panicked" ELSE "set_remote_description"
        /\ steps' = Append(steps, IF parsed.panicked THEN "error" ELSE "get_session_response")
    /\ UNCHANGED <<cell_vars, server_vars>>
    /\ UNCHANGED <<on_error_handler, on_open_handler, local_description,
                   remote_description, posts, response_string,
                   ready_state, open_vars, holders, closed_by, read_vars, write_vars, trace>>

\* Mutant: the description gets the type the response names.
session_description_typed(response) ==
    [sdp_type |-> response.type_str, sdp |-> response.sdp]

\* let mut session_description = RTCSessionDescription::default();
\* session_description.sdp_type = RTCSdpType::Answer;
\* session_description.sdp = session_response.answer.sdp;
session_description(response) == [sdp_type |-> "answer", sdp |-> response.sdp]

\* RTCIceCandidateInit { candidate, sdp_mid, sdp_mline_index, ..default }
ice_candidate(response) ==
    [candidate |-> response.candidate, sdp_mid |-> response.sdp_mid,
     sdp_mline_index |-> response.sdp_m_line_index]

\* Mutant: the candidate is never applied, main goes on to its final loop.
main_set_remote_description_skips_candidate ==
    /\ \E ok \in BOOLEAN :
        /\ MainTry("set_remote_description", ok, "loop", "set_remote_description")
        /\ remote_description' = IF ok THEN session_description(session_response).sdp_type
                                  ELSE remote_description
    /\ UNCHANGED <<cell_vars, server_vars>>
    /\ UNCHANGED <<on_error_handler, on_open_handler, local_description, posts,
                   response_string, session_response, ready_state, open_vars,
                   holders, closed_by, read_vars, write_vars, trace>>

\* session_description.sdp_type = RTCSdpType::Answer;
\* peer_connection.set_remote_description(session_description).await?
main_set_remote_description ==
    /\ \E ok \in BOOLEAN :
        /\ MainTry("set_remote_description", ok, "add_ice_candidate", "set_remote_description")
        /\ remote_description' = IF ok THEN session_description(session_response).sdp_type
                                  ELSE remote_description
    /\ UNCHANGED <<cell_vars, server_vars>>
    /\ UNCHANGED <<on_error_handler, on_open_handler, local_description, posts,
                   response_string, session_response, ready_state, open_vars,
                   holders, closed_by, read_vars, write_vars, trace>>

\* if let Err(error) = peer_connection.add_ice_candidate(..).await { panic!(..) }
main_add_ice_candidate ==
    /\ main_pc = "add_ice_candidate"
    /\ \E ok \in BOOLEAN :
        /\ main_pc' = IF ok THEN "loop" ELSE "panicked"
        /\ steps' = Append(steps, IF ok THEN "add_ice_candidate" ELSE "error")
    /\ UNCHANGED <<cell_vars, server_vars>>
    /\ UNCHANGED <<on_error_handler, on_open_handler, local_description,
                   remote_description, posts, response_string, session_response,
                   ready_state, open_vars, holders, closed_by, read_vars, write_vars, trace>>

\* Mutant: main returns once both loops have ended.
main_loop_joins ==
    /\ main_pc = "loop"
    /\ main_pc' = IF read_pc \in {"returned_ok", "returned_err"} /\ write_pc = "returned"
                  THEN "exited" ELSE main_pc
    /\ UNCHANGED <<cell_vars, server_vars>>
    /\ UNCHANGED <<on_error_handler, on_open_handler, local_description,
                   remote_description, posts, response_string, session_response,
                   steps, ready_state, open_vars, holders, closed_by, read_vars,
                   write_vars, trace>>

\* loop {}
main_loop ==
    /\ main_pc = "loop"
    /\ UNCHANGED vars

\* ------------------------------------------------- the on_open handler
\* The engine reports the channel open.  ICE, DTLS and SCTP need both session
\* descriptions; they do not wait for add_ice_candidate to return (candidates
\* also come with the answer or are learnt from the peer's checks).  The
\* handler registered by on_open is then called, once.
data_channel_open ==
    /\ ProcessAlive
    /\ ready_state = "connecting"
    /\ local_description
    /\ remote_description # "none"
    /\ ready_state' = "open"
    /\ on_open_pc' = IF on_open_handler THEN "detach" ELSE on_open_pc
    /\ UNCHANGED <<cell_vars, server_vars>>
    /\ UNCHANGED <<main_vars, detach_calls, detached, holders, closed_by, read_vars,
                   write_vars, trace>>

\* Mutant: the result of detach() is not looked at.
on_open_detach_unchecked ==
    /\ ProcessAlive
    /\ on_open_pc = "detach"
    /\ detach_calls' = detach_calls + 1
    /\ \E ok \in BOOLEAN :
        /\ on_open_pc' = "spawn_read"
        /\ detached' = ok
        /\ holders' = IF ok THEN holders \cup {"on_open"} ELSE holders
    /\ UNCHANGED <<cell_vars, server_vars>>
    /\ UNCHANGED <<main_vars, ready_state, closed_by, read_vars, write_vars, trace>>

\* data_channel_ref_2.detach().await.expect(..): an Err panics the handler's
\* task, which the runtime contains; the process goes on.
on_open_detach ==
    /\ ProcessAlive
    /\ on_open_pc = "detach"
    /\ detach_calls' = detach_calls + 1
    /\ \E ok \in BOOLEAN :
        /\ on_open_pc' = IF ok THEN "spawn_read" ELSE "panicked"
        /\ detached' = ok
        /\ holders' = IF ok THEN holders \cup {"on_open"} ELSE holders
    /\ UNCHANGED <<cell_vars, server_vars>>
    /\ UNCHANGED <<main_vars, ready_state, closed_by, read_vars, write_vars, trace>>

\* tokio::spawn(async move { read_loop(detached_data_channel_1).await; });
on_open_spawn_read ==
    /\ ProcessAlive
    /\ on_open_pc = "spawn_read"
    /\ on_open_pc' = "spawn_write"
    /\ read_pc' = "read"
    /\ holders' = holders \cup {"read_loop"}
    /\ UNCHANGED <<cell_vars, server_vars>>
    /\ UNCHANGED <<main_vars, ready_state, detach_calls, detached, closed_by, message, recvs,
                   write_vars, trace>>

\* tokio::spawn(async move { write_loop(detached_data_channel_2).await; });
\* the handler's future ends and drops its own Arc.
on_open_spawn_write ==
    /\ ProcessAlive
    /\ on_open_pc = "spawn_write"
    /\ on_open_pc' = "done"
    /\ write_pc' = "sleep"
    /\ holders' = (holders \cup {"write_loop"}) \ {"on_open"}
    /\ UNCHANGED <<cell_vars, server_vars>>
    /\ UNCHANGED <<main_vars, ready_state, detach_calls, detached, closed_by, read_vars,
                   result, sends, elapsed, sent, trace>>

\* The peer or the transport closes the channel.
data_channel_close ==
    /\ ProcessAlive
    /\ ready_state = "open"
    /\ ready_state' = "closed"
    /\ closed_by' = "peer"
    /\ UNCHANGED <<cell_vars, server_vars>>
    /\ UNCHANGED <<main_vars, open_vars, holders, read_vars, write_vars, trace>>

\* The on_error handler: println!("data channel error!") and nothing else.
on_error_callback ==
    /\ ProcessAlive
    /\ on_error_handler
    /\ ready_state \in {"connecting", "open"}
    /\ UNCHANGED vars

\* The on_ice_candidate handler: prints the local candidate, or that all were
\* received; it gathers once the local description is set.
on_ice_candidate_callback ==
    /\ ProcessAlive
    /\ local_description
    /\ UNCHANGED vars

\* -------------------------------------------------------------- read_loop
\* Mutant: an Err is printed and the loop goes on reading.
read_loop_read_continues ==
    /\ ProcessAlive
    /\ read_pc = "read"
    /\ Len(trace) < MaxRecvs + MaxSends + 2
    /\ \/ /\ ready_state = "open"
          /\ recvs < MaxRecvs
          /\ \E payload \in Payloads :
                /\ payload.len <= MESSAGE_SIZE
                /\ message' = payload
          /\ recvs' = recvs + 1
          /\ read_pc' = "print"
          /\ trace' = Append(trace, "read_ok")
       \/ /\ read_pc' = "read"
          /\ trace' = Append(trace, "read_err")
          /\ UNCHANGED <<message, recvs>>
    /\ UNCHANGED <<cell_vars, server_vars>>
    /\ UNCHANGED <<main_vars, ready_state, open_vars, holders, closed_by, write_vars>>

\* data_channel.read(&mut buffer).await returns.  Ok(length): the payload is
\* in buffer[..length].  Err (the channel is closed, the datagram does not
\* fit the buffer, any other error): print and return Ok(()).
read_loop_read ==
    /\ ProcessAlive
    /\ read_pc = "read"
    /\ \/ /\ ready_state = "open"
          /\ recvs < MaxRecvs
          /\ \E payload \in Payloads :
                /\ payload.len <= MESSAGE_SIZE
                /\ message' = payload
          /\ recvs' = recvs + 1
          /\ read_pc' = "print"
          /\ trace' = Append(trace, "read_ok")
          /\ UNCHANGED holders
       \/ /\ read_pc' = "returned_ok"
          /\ holders' = holders \ {"read_loop"}
          /\ trace' = Append(trace, "read_err")
          /\ UNCHANGED <<message, recvs>>
    /\ UNCHANGED <<cell_vars, server_vars>>
    /\ UNCHANGED <<main_vars, ready_state, open_vars, closed_by, write_vars>>

\* println!(.., String::from_utf8(buffer[..message_length].to_vec())?): bytes
\* that are no UTF-8 return the error out of read_loop.
read_loop_print ==
    /\ ProcessAlive
    /\ read_pc = "print"
    /\ IF message.utf8
       THEN /\ read_pc' = "read"
            /\ UNCHANGED trace
            /\ UNCHANGED holders
       ELSE /\ read_pc' = "returned_err"
            /\ holders' = holders \ {"read_loop"}
            /\ trace' = Append(trace, "utf8_err")
    /\ UNCHANGED <<cell_vars, server_vars>>
    /\ UNCHANGED <<main_vars, ready_state, open_vars, closed_by, message, recvs,
                   write_vars>>

\* ------------------------------------------------------------- write_loop
\* One second of the pending tokio::time::sleep(Duration::from_secs(5)) passes.
timer_tick ==
    /\ ProcessAlive
    /\ write_pc = "sleep"
    /\ elapsed < SLEEP_SECS
    /\ elapsed' = elapsed + 1
    /\ UNCHANGED <<cell_vars, server_vars>>
    /\ UNCHANGED <<main_vars, ready_state, open_vars, holders, closed_by, read_vars,
                   write_pc, result, sends, sent, trace>>

\* Mutant: the loop does not look at result.
write_loop_sleep_retries ==
    /\ ProcessAlive
    /\ write_pc = "sleep"
    /\ sends < MaxSends
    /\ write_pc' = "write"
    /\ UNCHANGED <<cell_vars, server_vars>>
    /\ UNCHANGED <<main_vars, ready_state, open_vars, holders, closed_by, read_vars,
                   result, sends, elapsed, sent, trace>>

\* Mutant: write_loop closes the channel when it leaves the loop.
write_loop_sleep_closes ==
    /\ ProcessAlive
    /\ write_pc = "sleep"
    /\ IF result
       THEN /\ sends < MaxSends
            /\ elapsed = SLEEP_SECS
            /\ write_pc' = "write"
            /\ UNCHANGED <<holders, ready_state, closed_by>>
       ELSE /\ write_pc' = "returned"
            /\ holders' = holders \ {"write_loop"}
            /\ ready_state' = "closed"
            /\ closed_by' = "write_loop"
    /\ UNCHANGED <<cell_vars, server_vars>>
    /\ UNCHANGED <<main_vars, open_vars, read_vars, result, sends, elapsed, sent, trace>>

\* Mutant: the loop does not wait for the sleep.
write_loop_sleep_skips_timer ==
    /\ ProcessAlive
    /\ write_pc = "sleep"
    /\ IF result
       THEN /\ sends < MaxSends
            /\ write_pc' = "write"
            /\ UNCHANGED trace
            /\ UNCHANGED holders
       ELSE /\ write_pc' = "returned"
            /\ holders' = holders \ {"write_loop"}
            /\ UNCHANGED trace
    /\ UNCHANGED <<cell_vars, server_vars>>
    /\ UNCHANGED <<main_vars, ready_state, open_vars, closed_by, read_vars,
                   result, sends, elapsed, sent>>

\* while result.is_ok() { select! { _ = timeout.as_mut() => ..: the sleep has
\* run its SLEEP_SECS and the branch is taken.  When result is an Err the
\* loop is left and write_loop returns.
write_loop_sleep ==
    /\ ProcessAlive
    /\ write_pc = "sleep"
    /\ IF result
       THEN /\ sends < MaxSends
            /\ elapsed = SLEEP_SECS
            /\ write_pc' = "write"
            /\ UNCHANGED trace
            /\ UNCHANGED holders
       ELSE /\ write_pc' = "returned"
            /\ holders' = holders \ {"write_loop"}
            /\ UNCHANGED trace
    /\ UNCHANGED <<cell_vars, server_vars>>
    /\ UNCHANGED <<main_vars, ready_state, open_vars, closed_by, read_vars,
                   result, sends, elapsed, sent>>

\* Mutant: a failed write ends the process.
write_loop_write_aborts ==
    /\ ProcessAlive
    /\ write_pc = "write"
    /\ sends' = sends + 1
    /\ sent' = Append(sent, PING)
    /\ elapsed' = 0
    /\ \E ok \in BOOLEAN :
        /\ ok => ready_state = "open"
        /\ result' = ok
        /\ main_pc' = IF ok THEN main_pc ELSE "panicked"
        /\ trace' = Append(trace, IF ok THEN "write_ok" ELSE "write_err")
    /\ write_pc' = "sleep"
    /\ UNCHANGED <<cell_vars, server_vars>>
    /\ UNCHANGED <<on_error_handler, on_open_handler, local_description,
                   remote_description, posts, response_string, session_response,
                   steps, ready_state, open_vars, holders, closed_by, read_vars>>

\* result = data_channel.write(&Bytes::from(message)).await, message being
\* "PING"; the next turn of the loop creates a new sleep.
write_loop_write ==
    /\ ProcessAlive
    /\ write_pc = "write"
    /\ sends' = sends + 1
    /\ sent' = Append(sent, PING)
    /\ elapsed' = 0
    /\ \E ok \in BOOLEAN :
        /\ ok => ready_state = "open"
        /\ result' = ok
        /\ trace' = Append(trace, IF ok THEN "write_ok" ELSE "write_err")
    /\ write_pc' = "sleep"
    /\ UNCHANGED <<cell_vars, server_vars>>
    /\ UNCHANGED <<main_vars, ready_state, open_vars, holders, closed_by, read_vars>>

\* ------------------------------------------------------------------ system
Next ==
    \/ main_new_peer_connection
    \/ main_create_data_channel
    \/ main_on_error
    \/ main_on_open
    \/ main_on_ice_candidate
    \/ main_create_offer
    \/ main_set_local_description
    \/ main_send
    \/ main_text
    \/ main_get_session_response
    \/ main_set_remote_description
    \/ main_add_ice_candidate
    \/ main_loop
    \/ data_channel_open
    \/ on_open_detach
    \/ on_open_spawn_read
    \/ on_open_spawn_write
    \/ data_channel_close
    \/ on_error_callback
    \/ on_ice_candidate_callback
    \/ read_loop_read
    \/ read_loop_print
    \/ timer_tick
    \/ write_loop_sleep
    \/ write_loop_write

Spec == Init /\ [][Next]_vars

\* ------------------------------------------------ calls on the Address Cell
\* The holders of a handle of the cell: the signaling path and the two loops.
CellCallers == {"main", "read_loop", "write_loop"}

\* A caller takes a snapshot.
cell_get ==
    /\ Len(cell_log) < MaxCellCalls
    /\ \E who \in CellCallers :
        cell_log' = Append(cell_log, [op |-> "get", who |-> who, text |-> "",
                                      got |-> get(address_cell)])
    /\ UNCHANGED address_cell
    /\ UNCHANGED <<client_vars, server_vars>>

\* A caller feeds a candidate line into the cell.
cell_set_from_candidate ==
    /\ Len(cell_log) < MaxCellCalls
    /\ \E who \in CellCallers : \E text \in CandidateTexts :
        /\ address_cell' = set_from_candidate(address_cell, text)
        /\ cell_log' = Append(cell_log, [op |-> "set", who |-> who, text |-> text,
                                         got |-> address_cell'])
    /\ UNCHANGED <<client_vars, server_vars>>

CellNext == cell_get \/ cell_set_from_candidate

\* Any sequence of calls on one cell.
CellSpec == Init /\ [][CellNext]_vars

\* ---------------------------------------------------------- the echo server
\* The addresses packets come from.
Addresses == {"192.0.2.5:54321", "198.51.100.7:40000"}

\* The payloads a client may send: "PING", "PING" followed by a space,
\* "ping", "PIN", "PONG", the empty payload, and two payloads holding the
\* bytes 0xFF and 0xFE, which occur in no UTF-8 text.
ServerPayloads ==
    {PING, PING \o <<32>>, <<112, 105, 110, 103>>, <<80, 73, 78>>, PONG, <<>>,
     <<255, 254>>, PING \o <<255>>}

\* String::from_utf8_lossy, as a sequence of code points: an ASCII byte is its
\* own character, a byte that can occur in no UTF-8 sequence becomes U+FFFD.
from_utf8_lossy(bytes) ==
    [i \in 1..Len(bytes) |-> IF bytes[i] < 128 THEN bytes[i] ELSE 65533]

\* The characters of the String "PING"; "PONG".as_bytes() is PONG.
PingText == <<80, 73, 78, 71>>

Packet(address, payload) == [address |-> address, payload |-> payload]

\* What packet_receiver.receive() may return.
NoPacket == Packet("", <<>>)
Receives ==
    {[kind |-> "packet", packet |-> Packet(a, b)] : a \in Addresses, b \in ServerPayloads}
        \cup {[kind |-> "none", packet |-> NoPacket], [kind |-> "error", packet |-> NoPacket]}

\* Mutant: the payload only has to start with "PING".
update_prefix(received) ==
    IF /\ received.kind = "packet"
       /\ Len(from_utf8_lossy(received.packet.payload)) >= Len(PingText)
       /\ SubSeq(from_utf8_lossy(received.packet.payload), 1, Len(PingText)) = PingText
    THEN <<Packet(received.packet.address, PONG)>>
    ELSE <<>>

\* The packets one App::update sends for what receive() returned:
\* Ok(Some(packet)) with the lossy text equal to "PING" sends "PONG" to
\* packet.address(); Ok(None) and Err(..) send nothing.
update(received) ==
    IF /\ received.kind = "packet"
       /\ from_utf8_lossy(received.packet.payload) = PingText
    THEN <<Packet(received.packet.address, PONG)>>
    ELSE <<>>

\* App::update
app_update ==
    /\ Len(server_log) < MaxUpdates
    /\ \E received \in Receives :
        /\ outbox' = outbox \o update(received)
        /\ server_log' = Append(server_log, [received |-> received,
                                              sent |-> update(received)])
    /\ UNCHANGED <<client_vars, cell_vars>>

ServerNext == app_update

\* Any sequence of updates of one App.
ServerSpec == Init /\ [][ServerNext]_vars

\* The main path eventually takes its next step: main is the future the
\* runtime blocks on, and every await in it is answered by the engine or the
\* HTTP client with Ok or Err.
MainStep ==
    \/ main_new_peer_connection
    \/ main_create_data_channel
    \/ main_on_error
    \/ main_on_open
    \/ main_on_ice_candidate
    \/ main_create_offer
    \/ main_set_local_description
    \/ main_send
    \/ main_text
    \/ main_get_session_response
    \/ main_set_remote_description
    \/ main_add_ice_candidate

\* The runtime's worker threads run the spawned write_loop whatever main does
\* (main's loop {} keeps only the thread that blocks on it).
FairSpec == Init /\ [][Next]_vars /\ WF_vars(MainStep) /\ WF_vars(timer_tick)
            /\ WF_vars(write_loop_sleep)

\* ----------------------------------------------------- Signaling Exchange
\* The state of the Signaling Exchange, read off the statement main is at.
SignalingState ==
    CASE main_pc \in {"new_peer_connection", "create_data_channel", "on_error",
                      "on_open", "on_ice_candidate"} -> "Setup"
      [] main_pc \in {"create_offer", "set_local_description"} -> "CreatingOffer"
      [] main_pc \in {"send", "text", "get_session_response"} -> "AwaitingHttpResponse"
      [] main_pc = "set_remote_description" -> "ApplyingRemoteDescription"
      [] main_pc = "add_ice_candidate" -> "ApplyingCandidate"
      [] main_pc = "loop" -> "Ready"
      [] OTHER -> "Aborted"

\* The calls of a run that reaches Ready, in the order main makes them.
MainCalls == <<"new_peer_connection", "create_data_channel", "on_error", "on_open",
               "on_ice_candidate", "create_offer", "set_local_description", "send",
               "text", "get_session_response", "set_remote_description",
               "add_ice_candidate">>

\* The calls of steps that succeeded (a failed call is its last entry).
Succeeded ==
    IF steps # <<>> /\ steps[Len(steps)] = "error"
    THEN SubSeq(steps, 1, Len(steps) - 1)
    ELSE steps

Position(call) == CHOOSE i \in 1..Len(MainCalls) : MainCalls[i] = call

\* C1: the signaling steps occur in the order CreatingOffer ->
\* AwaitingHttpResponse -> ApplyingRemoteDescription -> ApplyingCandidate ->
\* Ready: the calls made so far are an initial part of the one order, none
\* skipped and none made twice; the POST is sent after the offer was created
\* and set, the remote description applied after the response was decoded, the
\* candidate after the remote description, and Ready comes after the candidate.
C1_SignalingOrder ==
    /\ Len(Succeeded) <= Len(MainCalls)
    /\ Succeeded = SubSeq(MainCalls, 1, Len(Succeeded))
    /\ ProcessAlive =>
        /\ steps = Succeeded
        /\ main_pc = IF Len(steps) = Len(MainCalls) THEN "loop"
                     ELSE MainCalls[Len(steps) + 1]
    /\ posts > 0 => local_description /\ Len(Succeeded) >= Position("set_local_description")
    /\ remote_description # "none" => Len(Succeeded) >= Position("set_remote_description")
    /\ SignalingState = "ApplyingCandidate" => remote_description = "answer"
    /\ SignalingState = "Ready" => Succeeded = MainCalls

C1_Witness ==
    /\ SignalingState = "Ready"
    /\ steps = MainCalls
    /\ posts = 1

\* The five required members are there, each of the type the decoder asks for.
RequiredFieldsPresent(r) ==
    /\ r.json
    /\ r.answer_sdp.kind = "string"
    /\ r.answer_type.kind = "string"
    /\ r.candidate_candidate.kind = "string"
    /\ r.candidate_sdpMLineIndex.kind = "number"
    /\ r.candidate_sdpMid.kind = "string"

\* main has run get_session_response on the response it received.
Decoded == Len(steps) >= Position("get_session_response")

C2_Decode ==
    /\ Decoded /\ RequiredFieldsPresent(response_string) =>
        /\ steps[Position("get_session_response")] = "get_session_response"
        /\ ~session_response.panicked
        \* from here on only the engine can stop the exchange
        /\ SignalingState = "Aborted" =>
            /\ Len(steps) > Position("get_session_response")
            /\ steps[Len(steps)] = "error"
    /\ Decoded /\ ~RequiredFieldsPresent(response_string) =>
        /\ main_pc = "panicked"
        /\ steps[Len(steps)] = "error"
        /\ Len(steps) = Position("get_session_response")
        /\ remote_description = "none"
    /\ SignalingState \in {"ApplyingRemoteDescription", "ApplyingCandidate", "Ready"} =>
        RequiredFieldsPresent(response_string)
    /\ remote_description # "none" => RequiredFieldsPresent(response_string)

\* C2: a response with all five required members present and of the right
\* type is decoded and the exchange goes on to Ready unless the engine
\* rejects the description or the candidate; a response with any one of them
\* missing or mistyped aborts the process before the remote description is
\* applied, and Ready is never reached.
C2_RequiredFields ==
    /\ []C2_Decode
    /\ (main_pc = "get_session_response" /\ RequiredFieldsPresent(response_string))
         ~> (SignalingState \in {"Ready", "Aborted"})
    /\ [](Decoded /\ ~RequiredFieldsPresent(response_string) => [](SignalingState = "Aborted"))

C2_Witness ==
    /\ SignalingState = "Ready"
    /\ RequiredFieldsPresent(response_string)
    /\ response_string.answer_type.str = "offer"
    /\ remote_description = "answer"

\* C3: a failed signaling step (the HTTP send, the remote description, the
\* candidate, or any other) ends the exchange in Aborted: the failed call is
\* the last one main makes, nothing is retried, Ready is not reached, and at
\* most one HTTP POST is sent in a run.
C3_Aborted ==
    /\ [](posts <= 1)
    /\ [](\A i \in 1..Len(steps) : steps[i] = "error" =>
            i = Len(steps) /\ SignalingState = "Aborted")
    /\ [](SignalingState = "Aborted" => steps # <<>> /\ steps[Len(steps)] = "error")
    /\ [][SignalingState = "Aborted" => UNCHANGED main_vars]_vars

C3_Witness ==
    /\ main_pc = "panicked"
    /\ Len(steps) = Position("add_ice_candidate")
    /\ steps[Len(steps)] = "error"
    /\ remote_description = "answer"
    /\ posts = 1

\* ---------------------------------------------------------- Keepalive Loop
TasksStarted == read_pc # "none" \/ write_pc # "none"
ReadRunning == ProcessAlive /\ read_pc \in {"read", "print"}
WriteRunning == ProcessAlive /\ write_pc \in {"sleep", "write"}
ReadEnded == read_pc \in {"returned_ok", "returned_err"}

\* C4: read_loop and write_loop are started only after the channel has
\* reported open and detach() has returned the detached channel; detach() is
\* called at most once in a run, and when it fails neither loop is started.
C4_StartAfterDetach ==
    /\ detach_calls <= 1
    /\ detached => detach_calls = 1 /\ ready_state \in {"open", "closed"}
    /\ TasksStarted =>
        /\ ready_state \in {"open", "closed"}
        /\ detached
        /\ on_open_pc \in {"spawn_write", "done"}
    /\ write_pc # "none" => read_pc # "none" /\ on_open_pc = "done"
    /\ detach_calls = 1 /\ ~detached =>
        /\ on_open_pc = "panicked"
        /\ ~TasksStarted

C4_Witness ==
    /\ read_pc # "none"
    /\ write_pc # "none"
    /\ detached
    /\ detach_calls = 1

\* C5 as stated: the loops start only once the exchange is Ready, and never
\* run in a run that ends in Aborted.
C5_TasksOnlyWhenReady == TasksStarted => SignalingState = "Ready"

\* C5, amended: the loops start only after the on_open handler was registered
\* and the remote description applied, that is from ApplyingCandidate on;
\* they can start before Ready, and a run in which they started can still end
\* in Aborted, after which neither loop takes another step.
C5_TasksAfterRemoteDescription ==
    /\ [](TasksStarted =>
            /\ on_open_handler
            /\ local_description
            /\ remote_description = "answer"
            /\ SignalingState \in {"ApplyingCandidate", "Ready", "Aborted"}
            /\ Len(Succeeded) >= Position("set_remote_description"))
    /\ [][SignalingState = "Aborted" => UNCHANGED <<read_vars, write_vars, trace>>]_vars

C5_Witness ==
    /\ SignalingState = "Aborted"
    /\ read_pc = "print"
    /\ write_pc = "write"

\* C6: write_loop stops on its first failed send: after a write that returned
\* Err no further write is made, the only step left to write_loop is to
\* return, and it returns (unless the process ends first).
C6_WriteStops ==
    /\ [](\A i \in 1..Len(trace) : trace[i] = "write_err" =>
            \A j \in (i + 1)..Len(trace) : trace[j] \notin {"write_ok", "write_err"})
    /\ [](~result => write_pc \in {"sleep", "returned"})
    /\ [](write_pc = "returned" => ~result)
    /\ [][~result => /\ sends' = sends
                     /\ result' = result
                     /\ write_pc' \in {write_pc, "returned"}]_vars
    /\ ~result ~> (write_pc = "returned" \/ ~ProcessAlive)

C6_Witness ==
    /\ write_pc = "returned"
    /\ sends = 2
    /\ \E i \in 1..Len(trace) : trace[i] = "write_ok"

\* C7: an Err from read, whatever its cause, ends read_loop: no read follows
\* it, read_loop returns Ok(()), and the step leaves main and write_loop as
\* they are.
C7_ReadEnds ==
    /\ [](\A i \in 1..Len(trace) : trace[i] = "read_err" =>
            /\ read_pc = "returned_ok"
            /\ \A j \in (i + 1)..Len(trace) :
                 trace[j] \notin {"read_ok", "read_err", "utf8_err"})
    /\ [][read_pc = "read" /\ read_pc' \notin {"read", "print"} =>
            /\ read_pc' = "returned_ok"
            /\ UNCHANGED <<main_vars, write_vars>>]_vars
    /\ [][ReadEnded => UNCHANGED read_vars]_vars

C7_Witness ==
    /\ read_pc = "returned_ok"
    /\ ready_state = "open"
    /\ ProcessAlive
    /\ recvs >= 1

\* read_loop gets a payload: the Ok arm of its read.
ReadReceives == read_loop_read /\ read_pc' = "print"

\* C8: a failure in one loop ends only that loop.  The step in which a write
\* fails, and the step in which write_loop returns, leave read_loop, main and
\* the channel as they are, and read_loop can still receive afterwards; the
\* step in which read_loop ends leaves write_loop, main and the channel as
\* they are, and write_loop still waits for its timer and sends.  The process
\* is not ended by either.
C8_FailureIsolation ==
    /\ [][(result /\ ~result') \/ (write_pc # "returned" /\ write_pc' = "returned") =>
            UNCHANGED <<main_vars, read_vars, ready_state, closed_by>>]_vars
    /\ [][~ReadEnded /\ ReadEnded' =>
            UNCHANGED <<main_vars, write_vars, ready_state, closed_by>>]_vars
    /\ [](/\ ~result
          /\ ProcessAlive
          /\ read_pc = "read"
          /\ ready_state = "open"
          /\ recvs < MaxRecvs
          => ENABLED ReadReceives)
    /\ [](ReadEnded /\ ProcessAlive /\ result /\ write_pc = "sleep" /\ sends < MaxSends
          => ENABLED (timer_tick \/ write_loop_sleep))
    /\ [](ReadEnded /\ ProcessAlive /\ write_pc = "write" => ENABLED write_loop_write)

C8_Witness ==
    /\ ProcessAlive
    /\ write_pc = "returned"
    /\ read_pc = "read"
    /\ \E i \in 1..Len(trace) : \E j \in (i + 1)..Len(trace) :
         trace[i] = "write_err" /\ trace[j] = "read_ok"

\* C9: neither loop closes the detached channel while the other holds a
\* reference to it: a loop that is running holds its Arc, and the channel was
\* not closed by its sibling, also once the sibling has returned.
C9_NoCloseBySibling ==
    /\ closed_by \in {"none", "peer"}
    /\ ReadRunning => "read_loop" \in holders /\ closed_by # "write_loop"
    /\ WriteRunning => "write_loop" \in holders /\ closed_by # "read_loop"
    /\ (ReadRunning \/ WriteRunning) /\ closed_by = "none" => ready_state = "open"

C9_Witness ==
    /\ ReadRunning
    /\ write_pc = "returned"
    /\ "write_loop" \notin holders
    /\ ready_state = "open"

\* ------------------------------------------------------------ Address Cell
\* C10: the Address Cell is monotonic and write-once: in any sequence of get
\* and set_from_candidate calls, once the cell holds Found(address) it does
\* not return to Finding and its address does not change, and every later
\* call sees that same address.
C10_CellWriteOnce ==
    /\ [][address_cell.state = "Found" => address_cell' = address_cell]_vars
    /\ [](\A i \in 1..Len(cell_log) : \A j \in (i + 1)..Len(cell_log) :
            cell_log[i].got.state = "Found" => cell_log[j].got = cell_log[i].got)
    /\ [](address_cell.state = "Found" =>
            \E i \in 1..Len(cell_log) :
                /\ cell_log[i].op = "set"
                /\ parse_candidate(cell_log[i].text).ok
                /\ address_cell = Found(parse_candidate(cell_log[i].text)))

C10_Witness ==
    /\ Len(cell_log) = 3
    /\ cell_log[1].op = "set" /\ cell_log[1].text = CandidateHost
    /\ cell_log[2].op = "set" /\ cell_log[2].text = CandidateOther
    /\ cell_log[3].op = "get" /\ cell_log[3].who = "read_loop"
    /\ cell_log[3].got = [state |-> "Found", ip |-> <<192, 0, 2, 5>>, port |-> 54321]

\* main has called add_ice_candidate (it returned Ok or Err).
CandidateApplied == Len(steps) >= Position("add_ice_candidate")

\* The cell was fed the candidate text of the response.
CellFed ==
    \E i \in 1..Len(cell_log) :
        cell_log[i].op = "set" /\ cell_log[i].text = session_response.candidate

\* C11: the candidate text of the response is fed into the Address Cell after
\* the remote description is applied and before the candidate is applied to
\* the transport, so that the cell has been set from it whether
\* add_ice_candidate then succeeds or fails.
C11_CellFedBeforeCandidate ==
    /\ CandidateApplied => CellFed
    /\ CellFed => remote_description = "answer"

\* C12: a response with a well-formed candidate line takes the Address Cell
\* to Found with the address of the line's connection-address and port
\* fields; for "candidate:1 1 UDP 2122260223 192.0.2.5 54321 typ host" the
\* cell becomes Found(192.0.2.5:54321).
C12_CellFoundFromResponse ==
    /\ CandidateApplied /\ parse_candidate(session_response.candidate).ok =>
        address_cell = Found(parse_candidate(session_response.candidate))
    /\ CandidateApplied /\ session_response.candidate = CandidateHost =>
        address_cell = [state |-> "Found", ip |-> <<192, 0, 2, 5>>, port |-> 54321]

\* The cell as call number i found it.
CellBefore(i) == IF i = 1 THEN Finding ELSE cell_log[i - 1].got

Malformed(text) == ~parse_candidate(text).ok

\* C13: a malformed candidate line (wrong field count, non-numeric port) is
\* no error: set_from_candidate on it leaves the cell as it was, Finding when
\* it was Finding, and the call changes nothing else, so it does not abort
\* the Signaling Exchange.
C13_MalformedIsNotFatal ==
    /\ [](Malformed(CandidateBad) /\ Malformed(CandidateBadPort))
    /\ [](\A i \in 1..Len(cell_log) :
            cell_log[i].op = "set" /\ Malformed(cell_log[i].text) =>
                /\ cell_log[i].got = CellBefore(i)
                /\ CellBefore(i).state = "Finding" => cell_log[i].got = Finding)
    /\ [][/\ Len(cell_log') > Len(cell_log)
          /\ cell_log'[Len(cell_log')].op = "set"
          /\ Malformed(cell_log'[Len(cell_log')].text)
          => /\ address_cell' = address_cell
             /\ main_pc' = main_pc
             /\ ProcessAlive']_vars

C13_Witness ==
    /\ Len(cell_log) = 3
    /\ cell_log[1].op = "set" /\ cell_log[1].text = CandidateBad
    /\ cell_log[2].op = "set" /\ cell_log[2].text = CandidateBadPort
    /\ cell_log[3].op = "get" /\ cell_log[3].got = Finding
    /\ address_cell = Finding

\* The last result of read_loop recorded in trace.
ReadResults == {"read_ok", "read_err", "utf8_err"}
LastReadResult ==
    LET at == {i \in 1..Len(trace) : trace[i] \in ReadResults}
    IN IF at = {} THEN "none"
       ELSE trace[CHOOSE i \in at : \A j \in at : j <= i]

\* C14: read_loop ends only on a receive error.  A run in which read_loop has
\* ended has a failed receive as the last thing read_loop did, and after a
\* receive that succeeded, whatever bytes it delivered, read_loop is printing
\* the payload or is back in the next receive.
C14_ReadEndsOnlyOnReceiveError ==
    /\ ReadEnded => LastReadResult = "read_err"
    /\ LastReadResult = "read_ok" => read_pc \in {"print", "read"}

\* A step in which write_loop hands a payload to data_channel.write.
Sends == sends' = sends + 1

\* C15: write_loop sends only when its timer has expired.  The sleep starts
\* at zero when the task starts and after every send, only the passing of
\* time advances it, a send happens only when it has run the full SLEEP_SECS
\* (the first send too), and every payload sent is "PING".
C15_SendOnTimer ==
    /\ [](write_pc = "none" => elapsed = 0 /\ sends = 0)
    /\ [](elapsed \in 0..SLEEP_SECS)
    /\ [](write_pc = "write" => elapsed = SLEEP_SECS)
    /\ [](Len(sent) = sends /\ \A i \in 1..Len(sent) : sent[i] = PING)
    /\ [][sends' # sends =>
            /\ Sends
            /\ write_pc = "write"
            /\ elapsed = SLEEP_SECS
            /\ elapsed' = 0
            /\ sent' = Append(sent, PING)]_vars
    /\ [][elapsed' # elapsed =>
            \/ elapsed' = elapsed + 1 /\ write_pc = "sleep" /\ sends' = sends
            \/ elapsed' = 0 /\ Sends]_vars

C15_Witness ==
    /\ sent = <<PING, PING>>
    /\ write_pc = "sleep"
    /\ elapsed = 0
    /\ result

\* The packets sent by the first n updates, in order.
RECURSIVE SentBy(_)
SentBy(n) == IF n = 0 THEN <<>> ELSE SentBy(n - 1) \o server_log[n].sent

IsPing(received) == received.kind = "packet" /\ received.packet.payload = PING

\* C16: App::update sends a packet only for a received packet whose payload
\* is exactly "PING": one packet, payload "PONG", to the address the packet
\* came from.  Any other payload, no packet and a receive error send nothing,
\* the packets sent are those replies and no others, and whatever the earlier
\* updates received, an error included, the next update still echoes.
C16_EchoOnlyPing ==
    /\ \A i \in 1..Len(server_log) :
        LET received == server_log[i].received IN
          IF IsPing(received)
          THEN server_log[i].sent = <<Packet(received.packet.address, PONG)>>
          ELSE server_log[i].sent = <<>>
    /\ outbox = SentBy(Len(server_log))
    /\ Len(server_log) < MaxUpdates =>
        \A a \in Addresses :
            ENABLED (app_update /\ outbox' = Append(outbox, Packet(a, PONG)))

C16_Witness ==
    /\ Len(server_log) = 3
    /\ server_log[1].received.kind = "error"
    /\ server_log[2].received = [kind |-> "packet",
                                 packet |-> Packet("192.0.2.5:54321", PING \o <<32>>)]
    /\ server_log[3].received = [kind |-> "packet",
                                 packet |-> Packet("198.51.100.7:40000", PING)]
    /\ outbox = <<Packet("198.51.100.7:40000", PONG)>>

HandlersRegistered == on_open_handler /\ on_error_handler

\* C17: the on_open and on_error handlers are registered before the offer is
\* created and before the POST is sent: main calls create_offer and sends the
\* request only with both registered, registered handlers stay registered,
\* and whenever the channel reports open the on_open handler is installed
\* and its future, which detaches the channel and starts the loops, runs.
C17_HandlersBeforeOffer ==
    /\ [](SignalingState \notin {"Setup", "Aborted"} => HandlersRegistered)
    /\ [](local_description \/ posts > 0 \/ remote_description # "none"
          => HandlersRegistered)
    /\ [][Len(steps') > Len(steps) /\ main_pc \in {"create_offer", "send"}
          => HandlersRegistered]_vars
    /\ [][HandlersRegistered => HandlersRegistered']_vars
    /\ [][ready_state # "open" /\ ready_state' = "open"
          => on_open_handler /\ on_open_pc = "idle" /\ on_open_pc' = "detach"]_vars
    /\ [](ready_state \in {"open", "closed"} => on_open_handler /\ on_open_pc # "idle")

C17_Witness ==
    /\ main_pc = "add_ice_candidate"
    /\ ready_state = "open"
    /\ on_open_pc = "detach"
    /\ HandlersRegistered

\* C18: once the Signaling Exchange is Ready the process does not end by
\* itself.  Every step taken in Ready, by main, by the engine or by a loop,
\* ends in Ready with the process alive and main's own state as it was, and
\* main's loop {} can always take its next turn, also when both loops have
\* ended.
C18_ReadyForever ==
    /\ [](SignalingState = "Ready" => ProcessAlive /\ ENABLED main_loop)
    /\ [][SignalingState = "Ready" =>
            SignalingState' = "Ready" /\ ProcessAlive' /\ UNCHANGED main_vars]_vars

C18_Witness ==
    /\ SignalingState = "Ready"
    /\ ReadEnded
    /\ write_pc = "returned"
    /\ ProcessAlive

\* The response body with the text of answer.type replaced.
TypeTexts == {"answer", "offer"}
WithType(input, text) == [input EXCEPT !.answer_type = JString(text)]

\* What main takes from the decoded response: whether decoding panicked, the
\* description it applies and the candidate it adds.
Applied(response) ==
    [panicked |-> response.panicked,
     description |-> session_description(response),
     candidate |-> ice_candidate(response)]

ResponseRead == Len(steps) >= Position("text") /\ steps[Position("text")] = "text"

\* C19: the text of answer.type has no influence on the exchange.  The remote
\* description is only ever applied with type Answer, also when the response
\* says "offer"; the response main has read and the same response with any
\* other text for answer.type decode to the same outcome, the same
\* description and the same candidate; with the response decoded, main
\* applies the description and goes on to the candidate whatever the type
\* text is; and a response without a text for answer.type ends in Aborted
\* when it is decoded.
C19_TypeValueIgnored ==
    /\ [](remote_description \in {"none", "answer"})
    /\ [](ResponseRead /\ GetString(response_string.answer_type) =>
            \A text \in TypeTexts :
                Applied(get_session_response(WithType(response_string, text)))
                    = Applied(get_session_response(response_string)))
    /\ [](main_pc = "set_remote_description" =>
            /\ session_response.type_str \in TypeTexts
            /\ ENABLED (main_set_remote_description /\ main_pc' = "add_ice_candidate"
                                                   /\ remote_description' = "answer"))
    /\ [][main_pc = "set_remote_description" /\ main_pc' = "add_ice_candidate" =>
            remote_description' = "answer"]_vars
    /\ [](/\ ResponseRead
          /\ ~GetString(response_string.answer_type)
          /\ main_pc # "get_session_response"
          => SignalingState = "Aborted" /\ remote_description = "none")

C19_Witness ==
    /\ SignalingState = "Ready"
    /\ session_response.type_str = "offer"
    /\ remote_description = "answer"


====
